---- MODULE Spec2Model ----
(***************************************************************************)
(* Model of the biodiversity bibliography export (ZNIEFF / Natura 2000):   *)
(*   src/src/znieff.py, src/src/n2000.py, src/src/outils_communs.py and    *)
(*   src/main.py.                                                          *)
(*                                                                         *)
(* Text is modelled as a sequence of characters, each character a          *)
(* one-character string.  The character U+00B2 (SUPERSCRIPT TWO), for      *)
(* which Python's str.isdigit() is true although it is no decimal digit,   *)
(* is written "u00B2".                                                     *)
(***************************************************************************)
EXTENDS Integers, Sequences, FiniteSets, TLC

VARIABLES
    prompt,     \* the code prompt being answered: "znieff" or "n2000" (SpecParse)
    raw,        \* the text typed at that prompt so far (SpecParse)
    typed,      \* number of fragments typed so far (SpecParse)
    parseOut,   \* outcome of the last parser call on raw (SpecParse)
    files,      \* the reference datasets on disk
    call,       \* the last exporter call and its outcome (SpecExport)
    pc,         \* position of the interactive program (Spec)
    asked,      \* the code lists returned by ask_codes (Spec)
    project,    \* the project name returned by ask_project_name (Spec)
    outDir,     \* the directory returned by ask_output_directory (Spec)
    dirs,       \* the directories that exist on disk (Spec)
    tables,     \* the tables the exporters returned in this run (Spec)
    runFile,    \* what this run has put on disk at out_xlsx (Spec)
    report      \* the last message printed for the user (Spec)

parseVars == <<prompt, raw, typed, parseOut>>
mainVars == <<pc, asked, project, outDir, dirs, tables, runFile, report>>
vars == <<prompt, raw, typed, parseOut, files, call,
          pc, asked, project, outDir, dirs, tables, runFile, report>>

(***************************************************************************)
(* Bounds of the model.                                                    *)
(***************************************************************************)
MaxPieces == 5      \* fragments typed at a code prompt
MaxRows == 2        \* rows of a primary dataset

(***************************************************************************)
(* Characters and Python's str predicates.                                 *)
(***************************************************************************)
DecimalDigits == {"0", "1", "2", "3", "4", "5", "6", "7", "8", "9"}

\* Characters c with c.isdigit(): the decimal digits and, among others,
\* the superscript digits.
IsDigitChar(c) == c \in DecimalDigits \cup {"u00B2"}

\* str.isdigit(): at least one character and every character a digit.
IsDigit(s) == Len(s) > 0 /\ \A i \in 1..Len(s) : IsDigitChar(s[i])

\* The characters str.strip() removes that occur in the model.
Whitespace == {" ", "\t", "\n", "\r"}

RECURSIVE LStrip(_)
LStrip(s) ==
    IF s # <<>> /\ Head(s) \in Whitespace THEN LStrip(Tail(s)) ELSE s

RECURSIVE RStrip(_)
RStrip(s) ==
    IF s # <<>> /\ s[Len(s)] \in Whitespace
    THEN RStrip(SubSeq(s, 1, Len(s) - 1))
    ELSE s

\* str.strip()
Strip(s) == RStrip(LStrip(s))

\* str.replace(old, new) for one-character old and new.
Replace(s, old, new) == [i \in 1..Len(s) |-> IF s[i] = old THEN new ELSE s[i]]

\* str.split(sep) for a one-character sep: "".split(";") is [""].
RECURSIVE Split(_, _)
Split(s, sep) ==
    IF \A i \in 1..Len(s) : s[i] # sep
    THEN <<s>>
    ELSE LET i == CHOOSE k \in 1..Len(s) :
                    s[k] = sep /\ \A j \in 1..(k - 1) : s[j] # sep
         IN  <<SubSeq(s, 1, i - 1)>> \o Split(SubSeq(s, i + 1, Len(s)), sep)

\* sep.join(list)
RECURSIVE Join(_, _)
Join(list, sep) ==
    IF list = <<>> THEN <<>>
    ELSE IF Len(list) = 1 THEN list[1]
    ELSE list[1] \o sep \o Join(Tail(list), sep)

Range(s) == {s[i] : i \in 1..Len(s)}

(***************************************************************************)
(* The code parsers.                                                       *)
(***************************************************************************)
\* Python's None passed as raw.
None == <<"None">>

ZNIEFF_LEN == 9
N2000_LEN == 9

Ok(codes) == [kind |-> "ok", codes |-> codes, token |-> <<>>]
ValueError(token) == [kind |-> "ValueError", codes |-> <<>>, token |-> token]

\* no parser called yet
NoCall == [fn |-> "none", out |-> Ok(<<>>)]

\* mutant: the comma is not made a separator
CleanedNoComma(r) == Replace(Replace(r, "\n", ";"), "\t", ";")

\* raw.replace(",", ";").replace("\n", ";").replace("\t", ";")
Cleaned(r) == Replace(Replace(Replace(r, ",", ";"), "\n", ";"), "\t", ";")

\* (x.strip() for x in cleaned.split(";"))
StrippedTokens(r) ==
    LET parts == Split(Cleaned(r), ";")
    IN  [i \in 1..Len(parts) |-> Strip(parts[i])]

\* mutant: keeps every non-empty token, seen is never consulted
RECURSIVE DedupLoopNoSeen(_, _)
DedupLoopNoSeen(tokens, out) ==
    IF tokens = <<>> THEN out
    ELSE LET c == Head(tokens)
         IN  IF c # <<>>
             THEN DedupLoopNoSeen(Tail(tokens), Append(out, c))
             ELSE DedupLoopNoSeen(Tail(tokens), out)

\* mutant: a token seen again moves to the end (last occurrence wins)
RECURSIVE DedupLoopLast(_, _)
DedupLoopLast(tokens, out) ==
    IF tokens = <<>> THEN out
    ELSE LET c == Head(tokens)
         IN  IF c # <<>>
             THEN DedupLoopLast(Tail(tokens),
                      Append(SelectSeq(out, LAMBDA x : x # c), c))
             ELSE DedupLoopLast(Tail(tokens), out)

\* for c in tokens: if c and c not in seen: seen.add(c); out.append(c)
\* (seen is always the set of the elements of out)
RECURSIVE DedupLoop(_, _)
DedupLoop(tokens, out) ==
    IF tokens = <<>> THEN out
    ELSE LET c == Head(tokens)
         IN  IF c # <<>> /\ c \notin Range(out)
             THEN DedupLoop(Tail(tokens), Append(out, c))
             ELSE DedupLoop(Tail(tokens), out)

\* c.isdigit() and len(c) == 9
ValidZnieff(c) == IsDigit(c) /\ Len(c) = ZNIEFF_LEN

\* c.startswith("FR") and len(c) == 9 and c[2:].isdigit()
ValidN2000(c) ==
    /\ Len(c) >= 2 /\ c[1] = "F" /\ c[2] = "R"
    /\ Len(c) = N2000_LEN
    /\ IsDigit(SubSeq(c, 3, Len(c)))

ValidCode(domain, c) ==
    IF domain = "znieff" THEN ValidZnieff(c) ELSE ValidN2000(c)

\* for c in out: if not valid(c): raise ValueError(... c ...)
FirstInvalid(out, domain) ==
    LET bad == {i \in 1..Len(out) : ~ValidCode(domain, out[i])}
    IN  IF bad = {} THEN 0 ELSE CHOOSE i \in bad : \A j \in bad : i <= j

Validate(out, domain) ==
    LET i == FirstInvalid(out, domain)
    IN  IF i = 0 THEN Ok(out) ELSE ValueError(out[i])

parse_codes_znieff(r) ==
    IF r = None THEN Ok(<<>>)
    ELSE Validate(DedupLoop(StrippedTokens(r), <<>>), "znieff")

parse_codes_n2000(r) ==
    IF r = None THEN Ok(<<>>)
    ELSE Validate(DedupLoop(StrippedTokens(r), <<>>), "n2000")

(***************************************************************************)
(* Text helpers used by the exporters.                                     *)
(***************************************************************************)
\* the characters of the model's texts, in code-point order
CharOrder ==
    <<"\t", "\n", "\r", " ", ",", "0", "1", "2", "3", "4", "5", "6", "7", "8",
      "9", ";", "A", "B", "C", "D", "E", "F", "G", "H", "I", "J", "K", "L",
      "M", "N", "O", "P", "Q", "R", "S", "T", "U", "V", "W", "X", "Y", "Z",
      "a", "b", "c", "d", "e", "f", "g", "h", "i", "j", "k", "l", "m", "n",
      "o", "p", "q", "r", "s", "t", "u", "v", "w", "x", "y", "z", "|",
      "u00B2">>

CharCode(c) == CHOOSE i \in 1..Len(CharOrder) : CharOrder[i] = c

\* Python's < on str: lexicographic by code point
RECURSIVE TextLess(_, _)
TextLess(a, b) ==
    IF b = <<>> THEN FALSE
    ELSE IF a = <<>> THEN TRUE
    ELSE IF Head(a) = Head(b) THEN TextLess(Tail(a), Tail(b))
    ELSE CharCode(Head(a)) < CharCode(Head(b))

LowerLetters ==
    <<"a", "b", "c", "d", "e", "f", "g", "h", "i", "j", "k", "l", "m", "n",
      "o", "p", "q", "r", "s", "t", "u", "v", "w", "x", "y", "z">>
UpperLetters ==
    <<"A", "B", "C", "D", "E", "F", "G", "H", "I", "J", "K", "L", "M", "N",
      "O", "P", "Q", "R", "S", "T", "U", "V", "W", "X", "Y", "Z">>

UpperChar(c) ==
    IF \E i \in 1..26 : LowerLetters[i] = c
    THEN UpperLetters[CHOOSE i \in 1..26 : LowerLetters[i] = c]
    ELSE c
LowerChar(c) ==
    IF \E i \in 1..26 : UpperLetters[i] = c
    THEN LowerLetters[CHOOSE i \in 1..26 : UpperLetters[i] = c]
    ELSE c

\* str.upper(), str.lower()
Upper(s) == [i \in 1..Len(s) |-> UpperChar(s[i])]
Lower(s) == [i \in 1..Len(s) |-> LowerChar(s[i])]

(***************************************************************************)
(* Tables (pandas DataFrame): an ordered list of column names and a list   *)
(* of rows, each row a function from the column names to cells.  A cell is *)
(* a text or the missing value NaN.                                        *)
(***************************************************************************)
NaN == <<"NaN">>

\* astype(str) of a cell
AsStr(v) == IF v = NaN THEN <<"n", "a", "n">> ELSE v

DataFrame(cols, rows) == [cols |-> cols, rows |-> rows]

\* pd.DataFrame(columns=cols)
EmptyFrame(cols) == DataFrame(cols, <<>>)

\* df.empty
IsEmpty(df) == df.rows = <<>> \/ df.cols = <<>>

HasCols(df, cols) == Range(cols) \subseteq Range(df.cols)

WithoutCol(cols, c) == SelectSeq(cols, LAMBDA x : x # c)

\* df[c] = df[c].astype(str).str.strip()
StripCol(df, c) ==
    [df EXCEPT !.rows =
        [i \in 1..Len(df.rows) |-> [df.rows[i] EXCEPT ![c] = Strip(AsStr(@))]]]

\* df[c] = df[c].astype(str).str.strip().str.upper()
StripUpperCol(df, c) ==
    [df EXCEPT !.rows =
        [i \in 1..Len(df.rows) |->
            [df.rows[i] EXCEPT ![c] = Upper(Strip(AsStr(@)))]]]

\* df[df[c].isin(codeSet)]
IsIn(df, c, codeSet) ==
    [df EXCEPT !.rows = SelectSeq(df.rows, LAMBDA r : r[c] \in codeSet)]

\* df.drop(columns=[c])
DropCol(df, c) ==
    DataFrame(WithoutCol(df.cols, c),
              [i \in 1..Len(df.rows) |->
                  [k \in DOMAIN df.rows[i] \ {c} |-> df.rows[i][k]]])

\* df.rename(columns={old: new}); a column that is absent is left alone
RenameCol(df, old, new) ==
    IF old \notin Range(df.cols) THEN df
    ELSE DataFrame(
            [i \in 1..Len(df.cols) |-> IF df.cols[i] = old THEN new ELSE df.cols[i]],
            [i \in 1..Len(df.rows) |->
                [k \in (DOMAIN df.rows[i] \ {old}) \cup {new} |->
                    IF k = new THEN df.rows[i][old] ELSE df.rows[i][k]]])

\* df[cols], for cols that are all present
Select(df, cols) ==
    DataFrame(cols,
              [i \in 1..Len(df.rows) |-> [k \in Range(cols) |-> df.rows[i][k]]])

\* the rows a left row yields in a left join: one per matching right row, in
\* the right table's order, or one with missing cells when none matches
JoinedRows(l, right, lk, rk) ==
    LET hits == SelectSeq(right.rows, LAMBDA r : r[rk] = l[lk])
    IN  IF hits = <<>>
        THEN <<l @@ [k \in Range(right.cols) |-> NaN]>>
        ELSE [j \in 1..Len(hits) |-> l @@ hits[j]]

RECURSIVE MergeRows(_, _, _, _)
MergeRows(lrows, right, lk, rk) ==
    IF lrows = <<>> THEN <<>>
    ELSE JoinedRows(Head(lrows), right, lk, rk)
            \o MergeRows(Tail(lrows), right, lk, rk)

\* left.merge(right, how="left", left_on=lk, right_on=rk)
\* (with on=k, lk = rk = k and the key column appears once)
MergeLeft(left, right, lk, rk) ==
    DataFrame(left.cols \o (IF lk = rk THEN WithoutCol(right.cols, rk) ELSE right.cols),
              MergeRows(left.rows, right, lk, rk))

\* df.drop_duplicates(subset=[c], keep="first")
RECURSIVE FirstOfEach(_, _, _)
FirstOfEach(rows, c, seen) ==
    IF rows = <<>> THEN <<>>
    ELSE IF Head(rows)[c] \in seen
         THEN FirstOfEach(Tail(rows), c, seen)
         ELSE <<Head(rows)>> \o FirstOfEach(Tail(rows), c, seen \cup {Head(rows)[c]})

DropDuplicates(df, c) == [df EXCEPT !.rows = FirstOfEach(df.rows, c, {})]

\* order of two cells in sort_values: texts by <, the missing value last
CellLess(a, b) ==
    IF a = NaN THEN FALSE ELSE IF b = NaN THEN TRUE ELSE TextLess(a, b)

RowLess(r1, r2, by1, by2) ==
    \/ CellLess(r1[by1], r2[by1])
    \/ r1[by1] = r2[by1] /\ CellLess(r1[by2], r2[by2])

\* insertion of a row behind every row that is not greater (stable)
RECURSIVE InsertSorted(_, _, _, _)
InsertSorted(sorted, r, by1, by2) ==
    IF sorted = <<>> THEN <<r>>
    ELSE IF RowLess(r, Head(sorted), by1, by2)
         THEN <<r>> \o sorted
         ELSE <<Head(sorted)>> \o InsertSorted(Tail(sorted), r, by1, by2)

RECURSIVE SortRows(_, _, _, _)
SortRows(rows, acc, by1, by2) ==
    IF rows = <<>> THEN acc
    ELSE SortRows(Tail(rows), InsertSorted(acc, Head(rows), by1, by2), by1, by2)

\* df.sort_values(by=[by1, by2], kind="stable")
SortValues(df, by1, by2) == [df EXCEPT !.rows = SortRows(df.rows, <<>>, by1, by2)]

(***************************************************************************)
(* The reference datasets (LocalINPNPaths): each file exists or not and    *)
(* holds rows.                                                             *)
(***************************************************************************)
FileNames ==
    {"znieff_espece", "znieff_habitats", "znieff_habitats_info",
     "znieff_infos_generales", "taxref", "n2000_habitats",
     "n2000_especes_inscrites", "n2000_especes_autres",
     "n2000_infos_generales", "habref_70"}

Absent == [exists |-> FALSE, rows |-> <<>>]
Present(rows) == [exists |-> TRUE, rows |-> rows]

\* mutant: every path is taken to exist
PathExistsAlways(fs, f) == TRUE

\* path.exists()
PathExists(fs, f) == fs[f].exists

\* what an exporter call yields: a table, or the exception it raises
Returned(df) == [kind |-> "ok", df |-> df, path |-> ""]
FileNotFoundError(path) ==
    [kind |-> "FileNotFoundError", df |-> EmptyFrame(<<>>), path |-> path]
KeyError == [kind |-> "KeyError", df |-> EmptyFrame(<<>>), path |-> ""]

\* pd.read_parquet(path, columns=cols)
ReadParquet(fs, f, cols) ==
    DataFrame(cols,
              [i \in 1..Len(fs[f].rows) |->
                  [k \in Range(cols) |-> fs[f].rows[i][k]]])

\* mutant: the entries are not trimmed before the emptiness test
UnstrippedCodeSet(codes) == Range(codes) \ {<<>>}

\* {str(c).strip() for c in codes if str(c).strip()}
StrippedCodeSet(codes) == {Strip(c) : c \in Range(codes)} \ {<<>>}

\* {str(c).strip().upper() for c in codes if str(c).strip()}
StrippedUpperCodeSet(codes) == {Upper(Strip(c)) : c \in {x \in Range(codes) : Strip(x) # <<>>}}

\* filter_parquet once the file is known to exist: the key column and the
\* codes are compared as they are, as str
FilterParquetRows(fs, f, key_col, keep_cols, codes) ==
    IsIn(ReadParquet(fs, f, keep_cols), key_col, Range(codes))

(***************************************************************************)
(* ZNIEFF (src/src/znieff.py)                                              *)
(***************************************************************************)
ESPECES_KEEP_COLS == <<"nm_sffzn", "cd_ref", "cd_nom", "fg_esp", "groupe_taxo">>

ESPECES_ZNIEFF_FINAL_COLS ==
    <<"ID ZNIEFF", "Nom ZNIEFF", "Type ZNIEFF", "Groupe taxonomique",
      "Nom scientifique", "CD_REF", "CD_NOM", "Type espèce">>

\* load_znieff_info once the file is known to exist
LoadZnieffInfoFrame(fs) ==
    LET zn == StripCol(ReadParquet(fs, "znieff_infos_generales",
                                   <<"NM_SFFZN", "LB_ZN", "TY_ZONE">>),
                       "NM_SFFZN")
        renamed == RenameCol(RenameCol(RenameCol(zn,
                        "NM_SFFZN", "ID ZNIEFF"),
                        "LB_ZN", "Nom ZNIEFF"),
                        "TY_ZONE", "Type ZNIEFF")
    IN  DropDuplicates(renamed, "ID ZNIEFF")

\* fg_map of export_especes_znieff
FgEspLabel(v) ==
    CASE v = <<"A">> -> <<"A", "u", "t", "r", "e", " ", "e", "s", "p", "è", "c", "e">>
      [] v = <<"E">> -> <<"A", "u", "t", "r", "e", " ", "e", "s", "p", "è", "c", "e", " ", "à", " ", "e", "n", "j", "e", "u", "x">>
      [] v = <<"D">> -> <<"D", "é", "t", "e", "r", "m", "i", "n", "a", "n", "t", "e">>
      [] v = <<"C">> -> <<"C", "o", "n", "f", "i", "d", "e", "n", "t", "i", "e", "l", "l", "e">>
      [] OTHER -> NaN

\* s.fillna(other): the cell of other where s is missing
FillNa(v, other) == IF v = NaN THEN other ELSE v

\* df["fg_esp"] = df["fg_esp"].astype(str).str.strip().map(fg_map).fillna(df["fg_esp"])
MapFgEsp(df) ==
    [df EXCEPT !.rows =
        [i \in 1..Len(df.rows) |->
            [df.rows[i] EXCEPT !["fg_esp"] = FillNa(FgEspLabel(Strip(AsStr(@))), @)]]]

\* mutant: the final column selection is forgotten
FinalSelectForgotten(df, final_cols) == Returned(df)

\* df[final_cols]: raises KeyError when a column is absent
FinalSelect(df, final_cols) ==
    IF HasCols(df, final_cols) THEN Returned(Select(df, final_cols)) ELSE KeyError

\* mutant: inner join with the taxonomic reference
MergeTaxrefInner(df, tax) ==
    LET m == MergeLeft(df, tax, "cd_nom", "CD_NOM")
    IN  DropCol([m EXCEPT !.rows = SelectSeq(m.rows, LAMBDA r : r["LB_NOM"] # NaN)],
                "CD_NOM")

\* df.merge(tax, how="left", left_on="cd_nom", right_on="CD_NOM").drop(columns=["CD_NOM"])
MergeTaxref(df, tax) == DropCol(MergeLeft(df, tax, "cd_nom", "CD_NOM"), "CD_NOM")

\* the rows of ZNIEFF_Especes kept by the filter
FilteredEspecesZnieff(fs, codes) ==
    FilterParquetRows(fs, "znieff_espece", "nm_sffzn", ESPECES_KEEP_COLS, codes)

\* export_especes_znieff, after the filter returned rows and with TAXREF
\* and the zone file present
EspecesZnieffFrame(fs, df0) ==
    LET tax == StripCol(ReadParquet(fs, "taxref", <<"CD_NOM", "LB_NOM">>), "CD_NOM")
        df1 == StripCol(StripCol(StripCol(df0, "cd_nom"), "cd_ref"), "nm_sffzn")
        df2 == MapFgEsp(MergeTaxref(df1, tax))
        df3 == RenameCol(RenameCol(RenameCol(RenameCol(RenameCol(RenameCol(df2,
                    "nm_sffzn", "ID ZNIEFF"),
                    "groupe_taxo", "Groupe taxonomique"),
                    "LB_NOM", "Nom scientifique"),
                    "cd_ref", "CD_REF"),
                    "cd_nom", "CD_NOM"),
                    "fg_esp", "Type espèce")
    IN  MergeLeft(df3, LoadZnieffInfoFrame(fs), "ID ZNIEFF", "ID ZNIEFF")

SortedResult(res, by1, by2) ==
    IF res.kind = "ok" THEN Returned(SortValues(res.df, by1, by2)) ELSE res

export_especes_znieff(fs, codes) ==
    IF StrippedCodeSet(codes) = {}
    THEN Returned(EmptyFrame(ESPECES_ZNIEFF_FINAL_COLS))
    ELSE IF ~PathExists(fs, "znieff_espece")
    THEN FileNotFoundError("znieff_espece")
    ELSE LET df == FilteredEspecesZnieff(fs, codes)
         IN  IF IsEmpty(df)
             THEN Returned(EmptyFrame(ESPECES_ZNIEFF_FINAL_COLS))
             ELSE IF ~PathExists(fs, "taxref")
             THEN FileNotFoundError("taxref")
             ELSE IF ~PathExists(fs, "znieff_infos_generales")
             THEN FileNotFoundError("znieff_infos_generales")
             ELSE SortedResult(
                      FinalSelect(EspecesZnieffFrame(fs, df), ESPECES_ZNIEFF_FINAL_COLS),
                      "Groupe taxonomique", "Nom scientifique")

HABITATS_KEEP_COLS ==
    <<"NM_SFFZN", "CD_TYPO", "LB_TYPO", "CD_HAB", "LB_CODE", "LB_HAB", "ID_TYPO_INFO">>

HABITATS_ZNIEFF_FINAL_COLS ==
    <<"ID ZNIEFF", "Nom ZNIEFF", "Type ZNIEFF", "Type habitat", "CD_HAB",
      "Code typologie", "Libellé typologie", "Code EUNIS", "Libellé EUNIS",
      "Code Corine", "Libellé Corine", "Code HIC", "Libellé HIC">>

GROUP_KEYS == <<"NM_SFFZN", "ID_TYPO_INFO">>

\* for col in required_cols: df[col] = df[col].fillna("").astype(str).str.strip()
RECURSIVE NormaliseCols(_, _)
NormaliseCols(df, cols) ==
    IF cols = <<>> THEN df
    ELSE NormaliseCols(
            [df EXCEPT !.rows =
                [i \in 1..Len(df.rows) |->
                    [df.rows[i] EXCEPT ![Head(cols)] = Strip(AsStr(FillNa(@, <<>>)))]]],
            Tail(cols))

\* fg_map of export_habitats_znieff, with "" for a flag it does not hold
FgTypoLabel(v) ==
    CASE v = <<"A">> -> <<"A", "u", "t", "r", "e", " ", "h", "a", "b", "i", "t", "a", "t">>
      [] v = <<"D">> -> <<"D", "é", "t", "e", "r", "m", "i", "n", "a", "n", "t">>
      [] v = <<"P">> -> <<"P", "é", "r", "i", "p", "h", "é", "r", "i", "q", "u", "e">>
      [] OTHER -> <<>>

\* fg_lookup.get(id, ""): dict(zip(ID_TYPO_INFO, FG_TYPO)) over the stripped
\* columns keeps the last row of an identifier; {} when the file is absent
FgLookup(fs, id) ==
    IF ~PathExists(fs, "znieff_habitats_info") THEN <<>>
    ELSE LET info == StripCol(StripCol(
                        ReadParquet(fs, "znieff_habitats_info",
                                    <<"ID_TYPO_INFO", "FG_TYPO">>),
                        "ID_TYPO_INFO"), "FG_TYPO")
             hits == {i \in 1..Len(info.rows) : info.rows[i]["ID_TYPO_INFO"] = id}
         IN  IF hits = {} THEN <<>>
             ELSE info.rows[CHOOSE i \in hits : \A j \in hits : j <= i]["FG_TYPO"]

\* v and v != "nan"
IsValidValue(v) == v # <<>> /\ v # <<"n", "a", "n">>

\* the texts of a set in ascending order: sorted(set)
RECURSIVE SortedTexts(_)
SortedTexts(S) ==
    IF S = {} THEN <<>>
    ELSE LET m == CHOOSE x \in S : \A y \in S \ {x} : TextLess(x, y)
         IN  <<m>> \o SortedTexts(S \ {m})

join_unique(values) ==
    Join(SortedTexts({v \in Range(values) : IsValidValue(v)}), <<";">>)

\* mutant: the values are joined as join_unique joins them, sorted and
\* without repetition
join_pipe_sorted(values) ==
    Join(SortedTexts({v \in Range(values) : IsValidValue(v)}), <<" ", "|", " ">>)

join_pipe(values) ==
    Join(SelectSeq(values, IsValidValue), <<" ", "|", " ">>)

\* mutant: the smallest valid value instead of the first
first_valid_min(values) ==
    LET ok == SortedTexts({v \in Range(values) : IsValidValue(v)})
    IN  IF ok = <<>> THEN <<>> ELSE Head(ok)

first_valid(values) ==
    LET ok == SelectSeq(values, IsValidValue)
    IN  IF ok = <<>> THEN <<>> ELSE Head(ok)

\* str.lstrip("0")
RECURSIVE LStripZeros(_)
LStripZeros(t) ==
    IF t # <<>> /\ Head(t) = "0" THEN LStripZeros(Tail(t)) ELSE t

\* the values of column c in rows
Column(rows, c) == [i \in 1..Len(rows) |-> rows[i][c]]

GroupKeyOf(r) == <<r["NM_SFFZN"], r["ID_TYPO_INFO"]>>

\* mutant: one key per row, repeated keys included
GroupKeysOfEveryRow(rows, seen) == [i \in 1..Len(rows) |-> GroupKeyOf(rows[i])]

\* groupby(group_keys, sort=False): the keys in order of first appearance
RECURSIVE GroupKeysInOrder(_, _)
GroupKeysInOrder(rows, seen) ==
    IF rows = <<>> THEN <<>>
    ELSE IF GroupKeyOf(Head(rows)) \in seen
         THEN GroupKeysInOrder(Tail(rows), seen)
         ELSE <<GroupKeyOf(Head(rows))>>
                 \o GroupKeysInOrder(Tail(rows), seen \cup {GroupKeyOf(Head(rows))})

GroupRows(rows, key) == SelectSeq(rows, LAMBDA r : GroupKeyOf(r) = key)

\* df[df["CD_TYPO_NORM"] == family]
FamilyRows(rows, family) ==
    SelectSeq(rows, LAMBDA r : LStripZeros(r["CD_TYPO"]) = family)

\* the main aggregation by ZNIEFF and typology, after reset_index()
MainAggregate(df) ==
    LET keys == GroupKeysInOrder(df.rows, {})
    IN  DataFrame(
            <<"NM_SFFZN", "ID_TYPO_INFO", "CD_HAB", "Code typologie",
              "Libellé typologie">>,
            [g \in 1..Len(keys) |->
                LET rows == GroupRows(df.rows, keys[g])
                IN  [k \in {"NM_SFFZN", "ID_TYPO_INFO", "CD_HAB", "Code typologie",
                            "Libellé typologie"} |->
                        CASE k = "NM_SFFZN" -> keys[g][1]
                          [] k = "ID_TYPO_INFO" -> keys[g][2]
                          [] k = "CD_HAB" -> first_valid(Column(rows, "CD_HAB"))
                          [] k = "Code typologie" -> join_unique(Column(rows, "CD_TYPO"))
                          [] OTHER -> join_unique(Column(rows, "LB_TYPO"))]])

\* out_df.merge(family aggregate, how="left", left_on=group_keys, right_index=True):
\* the family's two joined columns, missing for a group without a row of
\* the family
MergeFamily(out, df, family, codeCol, labelCol) ==
    DataFrame(
        out.cols \o <<codeCol, labelCol>>,
        [g \in 1..Len(out.rows) |->
            LET rows == FamilyRows(GroupRows(df.rows, GroupKeyOf(out.rows[g])), family)
            IN  out.rows[g] @@
                [k \in {codeCol, labelCol} |->
                    IF rows = <<>> THEN NaN
                    ELSE IF k = codeCol THEN join_pipe(Column(rows, "LB_CODE"))
                    ELSE join_pipe(Column(rows, "LB_HAB"))]])

\* out_df["Type habitat"] = out_df["ID_TYPO_INFO"].map(...)
WithTypeHabitat(fs, out) ==
    DataFrame(
        out.cols \o <<"Type habitat">>,
        [g \in 1..Len(out.rows) |->
            out.rows[g] @@
            [k \in {"Type habitat"} |->
                FgTypoLabel(FgLookup(fs, out.rows[g]["ID_TYPO_INFO"]))]])

\* for c in final_cols: if c not in out_df.columns: out_df[c] = ""
WithMissingCols(df, final_cols) ==
    LET missing == SelectSeq(final_cols, LAMBDA c : c \notin Range(df.cols))
    IN  DataFrame(df.cols \o missing,
                  [i \in 1..Len(df.rows) |->
                      df.rows[i] @@ [k \in Range(missing) |-> <<>>]])

\* out_df.fillna("")
FillNaFrame(df) ==
    [df EXCEPT !.rows =
        [i \in 1..Len(df.rows) |->
            [k \in DOMAIN df.rows[i] |-> FillNa(df.rows[i][k], <<>>)]]]

\* the rows of ZNIEFF_Habitats kept by the filter
FilteredHabitatsZnieff(fs, codes) ==
    FilterParquetRows(fs, "znieff_habitats", "NM_SFFZN", HABITATS_KEEP_COLS, codes)

\* export_habitats_znieff, after the filter returned rows and with the zone
\* file present
HabitatsZnieffFrame(fs, df0) ==
    LET df == NormaliseCols(df0, HABITATS_KEEP_COLS)
        agg == MainAggregate(df)
        fam == MergeFamily(
                   MergeFamily(
                       MergeFamily(agg, df, <<"7">>, "Code EUNIS", "Libellé EUNIS"),
                       df, <<"2", "2">>, "Code Corine", "Libellé Corine"),
                   df, <<"8">>, "Code HIC", "Libellé HIC")
        typed_ == WithTypeHabitat(fs, RenameCol(fam, "NM_SFFZN", "ID ZNIEFF"))
        joined == MergeLeft(typed_, LoadZnieffInfoFrame(fs), "ID ZNIEFF", "ID ZNIEFF")
    IN  FillNaFrame(WithMissingCols(joined, HABITATS_ZNIEFF_FINAL_COLS))

export_habitats_znieff(fs, codes) ==
    IF StrippedCodeSet(codes) = {}
    THEN Returned(EmptyFrame(HABITATS_ZNIEFF_FINAL_COLS))
    ELSE IF ~PathExists(fs, "znieff_habitats")
    THEN FileNotFoundError("znieff_habitats")
    ELSE LET df == FilteredHabitatsZnieff(fs, codes)
         IN  IF IsEmpty(df)
             THEN Returned(EmptyFrame(HABITATS_ZNIEFF_FINAL_COLS))
             ELSE IF ~PathExists(fs, "znieff_infos_generales")
             THEN FileNotFoundError("znieff_infos_generales")
             ELSE FinalSelect(HabitatsZnieffFrame(fs, df), HABITATS_ZNIEFF_FINAL_COLS)

(***************************************************************************)
(* Natura 2000 (src/src/n2000.py)                                          *)
(***************************************************************************)
HABITATS_N2000_FINAL_COLS ==
    <<"ID N2000", "Nom site", "Type de zone", "Code HIC", "Libellé HIC",
      "Forme prioritaire", "CD_HAB">>

ESPECES_N2000_FINAL_COLS ==
    <<"ID N2000", "Nom site", "Type de zone", "Groupe taxonomique",
      "Nom scientifique", "CD_NOM", "CD_REF", "Type espèce">>

N2000_ESPECES_COLS == <<"sitecode", "cd_nom", "cd_ref", "taxgroup">>

\* type_map of load_n2000_info
ZoneTypeLabel(v) ==
    CASE v = <<"A">> -> <<"Z", "P", "S">>
      [] v = <<"B">> -> <<"p", "S", "I", "C", "/", "S", "I", "C", "/", "Z", "S", "C">>
      [] OTHER -> NaN

\* load_n2000_info once the file is known to exist
LoadN2000InfoFrame(fs) ==
    LET infos == StripUpperCol(ReadParquet(fs, "n2000_infos_generales",
                                           <<"sitecode", "site_name", "type">>),
                               "sitecode")
    IN  [infos EXCEPT !.rows =
            [i \in 1..Len(infos.rows) |->
                [infos.rows[i] EXCEPT
                    !["type"] = FillNa(ZoneTypeLabel(Strip(AsStr(@))), @)]]]

\* pf_map of export_habitats_n2000
PfLabel(v) ==
    CASE v = <<"t", "r", "u", "e">> -> <<"O", "u", "i">>
      [] v = <<"f", "a", "l", "s", "e">> -> <<"N", "o", "n">>
      [] OTHER -> NaN

\* df["Forme prioritaire"] = ....astype(str).str.strip().str.lower().map(pf_map).fillna(...)
MapPf(df) ==
    [df EXCEPT !.rows =
        [i \in 1..Len(df.rows) |->
            [df.rows[i] EXCEPT
                !["Forme prioritaire"] = FillNa(PfLabel(Lower(Strip(AsStr(@)))), @)]]]

\* the rows of N2000_Habitats kept by the filter
FilteredHabitatsN2000(fs, codes) ==
    IsIn(StripUpperCol(ReadParquet(fs, "n2000_habitats",
                                   <<"sitecode", "cd_ue", "cd_hab", "pf">>),
                       "sitecode"),
         "sitecode", StrippedUpperCodeSet(codes))

\* export_habitats_n2000, after the filter returned rows and with HABREF
\* and the site file present
HabitatsN2000Frame(fs, df0) ==
    LET habref == StripCol(ReadParquet(fs, "habref_70", <<"CD_HAB", "LB_HAB_FR">>),
                           "CD_HAB")
        df1 == DropCol(MergeLeft(StripCol(df0, "cd_hab"), habref, "cd_hab", "CD_HAB"),
                       "CD_HAB")
        df2 == MergeLeft(df1, LoadN2000InfoFrame(fs), "sitecode", "sitecode")
        df3 == RenameCol(RenameCol(RenameCol(RenameCol(RenameCol(RenameCol(RenameCol(df2,
                    "sitecode", "ID N2000"),
                    "cd_ue", "Code HIC"),
                    "cd_hab", "CD_HAB"),
                    "LB_HAB_FR", "Libellé HIC"),
                    "pf", "Forme prioritaire"),
                    "site_name", "Nom site"),
                    "type", "Type de zone")
    IN  MapPf(df3)

export_habitats_n2000(fs, codes) ==
    IF StrippedUpperCodeSet(codes) = {}
    THEN Returned(EmptyFrame(HABITATS_N2000_FINAL_COLS))
    ELSE IF ~PathExists(fs, "n2000_habitats")
    THEN FileNotFoundError("n2000_habitats")
    ELSE LET df == FilteredHabitatsN2000(fs, codes)
         IN  IF IsEmpty(df)
             THEN Returned(EmptyFrame(HABITATS_N2000_FINAL_COLS))
             ELSE IF ~PathExists(fs, "habref_70")
             THEN FileNotFoundError("habref_70")
             ELSE IF ~PathExists(fs, "n2000_infos_generales")
             THEN FileNotFoundError("n2000_infos_generales")
             ELSE FinalSelect(HabitatsN2000Frame(fs, df), HABITATS_N2000_FINAL_COLS)

\* taxgroup_map of export_especes_n2000
TaxgroupLabel(v) ==
    CASE v = <<"A">> -> <<"A", "m", "p", "h", "i", "b", "i", "e", "n", "s">>
      [] v = <<"B">> -> <<"O", "i", "s", "e", "a", "u", "x">>
      [] v = <<"F">> -> <<"P", "o", "i", "s", "s", "o", "n", "s">>
      [] v = <<"I">> -> <<"I", "n", "v", "e", "r", "t", "é", "b", "r", "é", "s">>
      [] v = <<"M">> -> <<"M", "a", "m", "m", "i", "f", "è", "r", "e", "s">>
      [] v = <<"P">> -> <<"P", "l", "a", "n", "t", "e", "s">>
      [] v = <<"R">> -> <<"R", "e", "p", "t", "i", "l", "e", "s">>
      [] OTHER -> NaN

\* df["taxgroup"] = df["taxgroup"].map(taxgroup_map).fillna(df["taxgroup"])
MapTaxgroup(df) ==
    [df EXCEPT !.rows =
        [i \in 1..Len(df.rows) |->
            [df.rows[i] EXCEPT !["taxgroup"] = FillNa(TaxgroupLabel(@), @)]]]

\* a species table read and tagged: df["Type espèce"] = label
TaggedEspeces(fs, f, label) ==
    LET df == ReadParquet(fs, f, N2000_ESPECES_COLS)
    IN  DataFrame(df.cols \o <<"Type espèce">>,
                  [i \in 1..Len(df.rows) |->
                      df.rows[i] @@ [k \in {"Type espèce"} |-> label]])

\* pd.concat([a, b], ignore_index=True) of two tables with the same columns
Concat(a, b) == DataFrame(a.cols, a.rows \o b.rows)

\* the rows of the two species tables kept by the filter
FilteredEspecesN2000(fs, codes) ==
    IsIn(StripUpperCol(
            Concat(TaggedEspeces(fs, "n2000_especes_inscrites", <<"E", "s", "p", "è", "c", "e", " ", "i", "n", "s", "c", "r", "i", "t", "e">>),
                   TaggedEspeces(fs, "n2000_especes_autres", <<"E", "s", "p", "è", "c", "e", " ", "a", "u", "t", "r", "e">>)),
            "sitecode"),
         "sitecode", StrippedUpperCodeSet(codes))

\* export_especes_n2000, after the filter returned rows and with TAXREF and
\* the site file present
EspecesN2000Frame(fs, df0) ==
    LET df1 == StripCol(StripCol(StripCol(df0, "cd_nom"), "cd_ref"), "taxgroup")
        tax == StripCol(ReadParquet(fs, "taxref", <<"CD_NOM", "LB_NOM">>), "CD_NOM")
        df2 == MapTaxgroup(MergeTaxref(df1, tax))
        df3 == MergeLeft(df2, LoadN2000InfoFrame(fs), "sitecode", "sitecode")
    IN  RenameCol(RenameCol(RenameCol(RenameCol(RenameCol(RenameCol(RenameCol(df3,
            "sitecode", "ID N2000"),
            "taxgroup", "Groupe taxonomique"),
            "cd_nom", "CD_NOM"),
            "cd_ref", "CD_REF"),
            "site_name", "Nom site"),
            "type", "Type de zone"),
            "LB_NOM", "Nom scientifique")

export_especes_n2000(fs, codes) ==
    IF StrippedUpperCodeSet(codes) = {}
    THEN Returned(EmptyFrame(ESPECES_N2000_FINAL_COLS))
    ELSE IF ~PathExists(fs, "n2000_especes_inscrites")
    THEN FileNotFoundError("n2000_especes_inscrites")
    ELSE IF ~PathExists(fs, "n2000_especes_autres")
    THEN FileNotFoundError("n2000_especes_autres")
    ELSE LET df == FilteredEspecesN2000(fs, codes)
         IN  IF IsEmpty(df)
             THEN Returned(EmptyFrame(ESPECES_N2000_FINAL_COLS))
             ELSE IF ~PathExists(fs, "taxref")
             THEN FileNotFoundError("taxref")
             ELSE IF ~PathExists(fs, "n2000_infos_generales")
             THEN FileNotFoundError("n2000_infos_generales")
             ELSE FinalSelect(EspecesN2000Frame(fs, df), ESPECES_N2000_FINAL_COLS)

(***************************************************************************)
(* The interactive program (src/main.py) and the report writer             *)
(* (write_excel_output in src/src/outils_communs.py).                      *)
(***************************************************************************)
NoTables ==
    [t \in {"habitats_znieff", "especes_znieff", "habitats_n2000", "especes_n2000"}
        |-> EmptyFrame(<<>>)]

\* nothing printed yet
NoReport == [origin |-> "none", error |-> "none", shown |-> "nothing"]

\* a message printed for the user: the step it comes from, the exception
\* kind behind it ("none" for a plain message) and what the text shows
Report(origin, error, shown) == [origin |-> origin, error |-> error, shown |-> shown]

\* the program before main() is entered
MainStart ==
    /\ pc = "ask_znieff"
    /\ asked = [znieff |-> <<>>, n2000 |-> <<>>]
    /\ project = <<>>
    /\ outDir = <<>>
    /\ dirs = {}
    /\ tables = NoTables
    /\ runFile = "none"
    /\ report = NoReport

\* the program is not run (SpecParse, SpecExport)
MainIdle ==
    /\ pc = "idle"
    /\ asked = [znieff |-> <<>>, n2000 |-> <<>>]
    /\ project = <<>>
    /\ outDir = <<>>
    /\ dirs = {}
    /\ tables = NoTables
    /\ runFile = "none"
    /\ report = NoReport

(***************************************************************************)
(* SpecExport: the four exporters called on a dataset directory.  The      *)
(* directory holds the files of one export, each present or absent; the    *)
(* other files are absent.                                                 *)
(***************************************************************************)
SeqsUpTo(S, n) == UNION {[1..k -> S] : k \in 0..n}

Opt(contents) == {Absent} \cup {Present(c) : c \in contents}

NoFiles == [f \in FileNames |-> Absent]

\* zone identifiers as the datasets and the callers write them
KA == <<"7">>
KB == <<"8">>
KAPad == <<" ", "7">>
SA == <<"F", "1">>
SALow == <<"f", "1">>
SB == <<"F", "2">>
SAPad == <<"F", "1", " ">>

EspeceZnieffRow(zone, ref, nom, fg, grp) ==
    [nm_sffzn |-> zone, cd_ref |-> ref, cd_nom |-> nom, fg_esp |-> fg,
     groupe_taxo |-> grp]

EspecesZnieffRows ==
    {EspeceZnieffRow(KA, <<"1">>, <<"1">>, <<"D">>, <<"b">>),
     EspeceZnieffRow(KA, <<"2">>, <<"2">>, <<"X">>, <<"a">>),
     EspeceZnieffRow(KB, <<"1">>, <<" ", "1">>, <<" ", "A">>, <<"a">>),
     EspeceZnieffRow(KAPad, <<"3">>, <<"3">>, <<"C">>, <<"b">>)}

TaxrefRow(nom, name) == [CD_NOM |-> nom, LB_NOM |-> name]

TaxrefContents ==
    {<<>>,
     <<TaxrefRow(<<"1">>, <<"N", "a">>)>>,
     <<TaxrefRow(<<"1", " ">>, <<"N", "b">>), TaxrefRow(<<"1">>, <<"N", "a">>),
       TaxrefRow(<<"3">>, <<"N", "c">>)>>}

ZnieffInfoRow(zone, name, type) == [NM_SFFZN |-> zone, LB_ZN |-> name, TY_ZONE |-> type]

ZnieffInfoContents ==
    {<<>>,
     <<ZnieffInfoRow(KA, <<"Z", "a">>, <<"1">>)>>,
     <<ZnieffInfoRow(KA, <<"Z", "a">>, <<"1">>),
       ZnieffInfoRow(KAPad, <<"Z", "b">>, <<"2">>),
       ZnieffInfoRow(KB, <<"Z", "c">>, <<"1">>)>>}

HabitatZnieffRow(zone, typo, lbTypo, hab, code, label, id) ==
    [NM_SFFZN |-> zone, CD_TYPO |-> typo, LB_TYPO |-> lbTypo, CD_HAB |-> hab,
     LB_CODE |-> code, LB_HAB |-> label, ID_TYPO_INFO |-> id]

HabitatsZnieffRows ==
    {HabitatZnieffRow(KA, <<"0", "7">>, <<"E", "u">>, <<"h", "1">>, <<"E", "1">>,
                      <<"L", "e">>, <<"1">>),
     HabitatZnieffRow(KA, <<"8">>, <<"H", "i">>, <<>>, <<"H", "1">>,
                      <<"L", "h">>, <<"1">>),
     HabitatZnieffRow(KA, <<"2", "2">>, <<"C", "o">>, <<"h", "2">>, <<"n", "a", "n">>,
                      <<"L", "c">>, <<"2">>),
     HabitatZnieffRow(KB, <<"5">>, <<"X", "x">>, <<"h", "3">>, <<"Q", "1">>,
                      <<"L", "q">>, <<>>),
     HabitatZnieffRow(KAPad, <<"7">>, <<"E", "u">>, <<"h", "1">>, <<"E", "1">>,
                      <<"L", "e">>, <<"1">>),
     HabitatZnieffRow(KA, <<"7">>, <<"E", "u">>, <<"h", "0">>, <<"E", "0">>,
                      <<"n", "a", "n">>, <<"1">>)}

TypoInfoRow(id, fg) == [ID_TYPO_INFO |-> id, FG_TYPO |-> fg]

TypoInfoContents ==
    {<<>>,
     <<TypoInfoRow(<<"1">>, <<"A">>), TypoInfoRow(<<"1", " ">>, <<"D">>),
       TypoInfoRow(<<"2">>, <<"Z">>)>>}

HabitatN2000Row(site, ue, hab, pf) ==
    [sitecode |-> site, cd_ue |-> ue, cd_hab |-> hab, pf |-> pf]

HabitatsN2000Rows ==
    {HabitatN2000Row(SA, <<"U", "1">>, <<"1", "0">>, <<"t", "r", "u", "e">>),
     HabitatN2000Row(SALow, <<"U", "2">>, <<" ", "1", "1">>, <<"F", "a", "l", "s", "e">>),
     HabitatN2000Row(SB, <<"U", "3">>, <<"1", "2">>, <<"x">>),
     HabitatN2000Row(SAPad, <<"U", "4">>, <<"1", "0">>, <<"t", "r", "u", "e">>)}

HabrefRow(hab, label) == [CD_HAB |-> hab, LB_HAB_FR |-> label]

HabrefContents ==
    {<<>>,
     <<HabrefRow(<<"1", "0">>, <<"L", "a">>)>>,
     <<HabrefRow(<<"1", "0">>, <<"L", "a">>), HabrefRow(<<"1", "0", " ">>, <<"L", "b">>),
       HabrefRow(<<"1", "1">>, <<"L", "c">>)>>}

N2000InfoRow(site, name, type) == [sitecode |-> site, site_name |-> name, type |-> type]

N2000InfoContents ==
    {<<>>,
     <<N2000InfoRow(SA, <<"S", "a">>, <<"A">>)>>,
     <<N2000InfoRow(SA, <<"S", "a">>, <<"A">>),
       N2000InfoRow(SALow, <<"S", "b">>, <<"B">>),
       N2000InfoRow(SB, <<"S", "c">>, <<"C">>)>>}

EspeceN2000Row(site, nom, ref, grp) ==
    [sitecode |-> site, cd_nom |-> nom, cd_ref |-> ref, taxgroup |-> grp]

EspecesN2000Rows ==
    {EspeceN2000Row(SA, <<"1">>, <<"1">>, <<"B">>),
     EspeceN2000Row(SALow, <<"2">>, <<"2">>, <<" ", "M">>),
     EspeceN2000Row(SB, <<" ", "1">>, <<"1">>, <<"Q">>)}

\* the directories in which the files of one export vary
DirsEspecesZnieff ==
    {[f \in FileNames |->
        CASE f = "znieff_espece" -> p
          [] f = "taxref" -> t
          [] f = "znieff_infos_generales" -> z
          [] OTHER -> Absent] :
     p \in Opt(SeqsUpTo(EspecesZnieffRows, MaxRows)),
     t \in Opt(TaxrefContents),
     z \in Opt(ZnieffInfoContents)}

DirsHabitatsZnieff ==
    {[f \in FileNames |->
        CASE f = "znieff_habitats" -> p
          [] f = "znieff_habitats_info" -> t
          [] f = "znieff_infos_generales" -> z
          [] OTHER -> Absent] :
     p \in Opt(SeqsUpTo(HabitatsZnieffRows, MaxRows)),
     t \in Opt(TypoInfoContents),
     z \in Opt(ZnieffInfoContents)}

DirsHabitatsN2000 ==
    {[f \in FileNames |->
        CASE f = "n2000_habitats" -> p
          [] f = "habref_70" -> t
          [] f = "n2000_infos_generales" -> z
          [] OTHER -> Absent] :
     p \in Opt(SeqsUpTo(HabitatsN2000Rows, MaxRows)),
     t \in Opt(HabrefContents),
     z \in Opt(N2000InfoContents)}

\* the two species tables hold at most MaxRows rows together
EspecesN2000Pairs ==
    {pq \in Opt(SeqsUpTo(EspecesN2000Rows, MaxRows))
              \X Opt(SeqsUpTo(EspecesN2000Rows, MaxRows)) :
        Len(pq[1].rows) + Len(pq[2].rows) <= MaxRows}

DirsEspecesN2000 ==
    {[f \in FileNames |->
        CASE f = "n2000_especes_inscrites" -> pq[1]
          [] f = "n2000_especes_autres" -> pq[2]
          [] f = "taxref" -> t
          [] f = "n2000_infos_generales" -> z
          [] OTHER -> Absent] :
     pq \in EspecesN2000Pairs,
     t \in Opt(TaxrefContents),
     z \in Opt(N2000InfoContents)}

\* the code lists handed to the exporters
Blank == <<" ">>
ZnieffCodeLists ==
    {<<>>, <<Blank>>, <<KA>>, <<KAPad>>, <<KA, KB>>, <<KB, Blank, KA>>}
N2000CodeLists ==
    {<<>>, <<Blank, <<>>>>, <<SA>>, <<SALow>>, <<SAPad, SB>>, <<SB, SA>>}

NoExport == [fn |-> "none", codes |-> <<>>, out |-> Returned(EmptyFrame(<<>>))]

InitExport ==
    /\ prompt = "znieff"
    /\ raw = <<>>
    /\ typed = 0
    /\ parseOut = NoCall
    /\ files \in DirsEspecesZnieff \cup DirsHabitatsZnieff
                    \cup DirsHabitatsN2000 \cup DirsEspecesN2000
    /\ call = NoExport
    /\ MainIdle

CallExportHabitatsZnieff ==
    /\ call.fn = "none"
    /\ \E codes \in ZnieffCodeLists :
          call' = [fn |-> "export_habitats_znieff", codes |-> codes,
                   out |-> export_habitats_znieff(files, codes)]
    /\ UNCHANGED <<parseVars, files, mainVars>>

CallExportEspecesZnieff ==
    /\ call.fn = "none"
    /\ \E codes \in ZnieffCodeLists :
          call' = [fn |-> "export_especes_znieff", codes |-> codes,
                   out |-> export_especes_znieff(files, codes)]
    /\ UNCHANGED <<parseVars, files, mainVars>>

CallExportHabitatsN2000 ==
    /\ call.fn = "none"
    /\ \E codes \in N2000CodeLists :
          call' = [fn |-> "export_habitats_n2000", codes |-> codes,
                   out |-> export_habitats_n2000(files, codes)]
    /\ UNCHANGED <<parseVars, files, mainVars>>

CallExportEspecesN2000 ==
    /\ call.fn = "none"
    /\ \E codes \in N2000CodeLists :
          call' = [fn |-> "export_especes_n2000", codes |-> codes,
                   out |-> export_especes_n2000(files, codes)]
    /\ UNCHANGED <<parseVars, files, mainVars>>

NextExport ==
    \/ CallExportHabitatsZnieff
    \/ CallExportEspecesZnieff
    \/ CallExportHabitatsN2000
    \/ CallExportEspecesN2000

SpecExport == InitExport /\ [][NextExport]_vars

(***************************************************************************)
(* SpecParse: text is typed at a prompt, fragment by fragment, and handed  *)
(* to one of the two parsers.                                              *)
(***************************************************************************)
Z1 == <<"1", "2", "3", "4", "5", "6", "7", "8", "9">>
Z2 == <<"9", "8", "7", "6", "5", "4", "3", "2", "1">>
ZSup == <<"1", "2", "3", "4", "5", "6", "7", "8", "u00B2">>
N1 == <<"F", "R", "1", "2", "3", "4", "5", "6", "7">>
N2 == <<"F", "R", "7", "6", "5", "4", "3", "2", "1">>

Separators == {<<",">>, <<";">>, <<"\n">>, <<"\t">>}

\* what the user may type at each prompt: codes, separators and blanks
Fragments(p) ==
    (IF p = "znieff" THEN {Z1, Z2, ZSup} ELSE {N1, N2, Z1})
        \cup Separators \cup {<<" ">>}

InitParse ==
    /\ prompt \in {"znieff", "n2000"}
    /\ raw \in {<<>>, None}
    /\ typed = 0
    /\ parseOut = NoCall
    /\ files = NoFiles
    /\ call = NoExport
    /\ MainIdle

\* the user types one more fragment
Type ==
    /\ parseOut.fn = "none"
    /\ raw # None
    /\ typed < MaxPieces
    /\ \E f \in Fragments(prompt) : raw' = raw \o f
    /\ typed' = typed + 1
    /\ UNCHANGED <<prompt, parseOut, files, call, mainVars>>

\* codes_znieff = parse_codes_znieff(raw_znieff)
CallParseZnieff ==
    /\ prompt = "znieff"
    /\ parseOut.fn = "none"
    /\ parseOut' = [fn |-> "parse_codes_znieff", out |-> parse_codes_znieff(raw)]
    /\ UNCHANGED <<prompt, raw, typed, files, call, mainVars>>

\* codes_n2000 = parse_codes_n2000(raw_n2000)
CallParseN2000 ==
    /\ prompt = "n2000"
    /\ parseOut.fn = "none"
    /\ parseOut' = [fn |-> "parse_codes_n2000", out |-> parse_codes_n2000(raw)]
    /\ UNCHANGED <<prompt, raw, typed, files, call, mainVars>>

NextParse == Type \/ CallParseZnieff \/ CallParseN2000

SpecParse == InitParse /\ [][NextParse]_vars

(***************************************************************************)
(* The report writer (src/src/outils_communs.py)                           *)
(***************************************************************************)
\* what df.to_excel writes for a cell: the missing value becomes the empty
\* text (na_rep="")
ExcelCell(v) == IF v = NaN THEN <<>> ELSE v

(***************************************************************************)
(* Spec: the interactive program, one step per prompt, exporter call and   *)
(* writer operation.                                                       *)
(***************************************************************************)
\* what the user may answer at the two code prompts
AnswersZnieff == {<<>>, Z1, <<" ">> \o Z2 \o <<",">> \o Z1, <<"1", "2">>}
AnswersN2000 == {<<>>, N1 \o <<";">>, <<"F", "R">>}

\* ask_codes, ZNIEFF prompt: re-asked until the parser accepts the answer
AskCodesZnieff ==
    /\ pc = "ask_znieff"
    /\ \E answer \in AnswersZnieff :
          LET out == parse_codes_znieff(answer)
          IN  IF out.kind = "ValueError"
              THEN /\ report' = Report("ask_codes", "ValueError", "message")
                   /\ UNCHANGED <<pc, asked>>
              ELSE /\ asked' = [asked EXCEPT !.znieff = out.codes]
                   /\ pc' = "ask_n2000"
                   /\ UNCHANGED report
    /\ UNCHANGED <<parseVars, files, call, project, outDir, dirs, tables, runFile>>

\* ask_codes, Natura 2000 prompt; both lists empty: everything is asked again
AskCodesN2000 ==
    /\ pc = "ask_n2000"
    /\ \E answer \in AnswersN2000 :
          LET out == parse_codes_n2000(answer)
          IN  IF out.kind = "ValueError"
              THEN /\ report' = Report("ask_codes", "ValueError", "message")
                   /\ UNCHANGED <<pc, asked>>
              ELSE IF asked.znieff # <<>> \/ out.codes # <<>>
              THEN /\ asked' = [asked EXCEPT !.n2000 = out.codes]
                   /\ pc' = "ask_project"
                   /\ UNCHANGED report
              ELSE /\ asked' = [asked EXCEPT !.n2000 = out.codes]
                   /\ pc' = "ask_znieff"
                   /\ report' = Report("ask_codes", "none", "message")
    /\ UNCHANGED <<parseVars, files, call, project, outDir, dirs, tables, runFile>>

\* the characters re.sub(r'[\\/:*?"<>|]+', "_", ...) replaces
IllegalNameChars == {"\\", "/", ":", "*", "?", "\"", "<", ">", "|"}

\* re.sub(r'[\\/:*?"<>|]+', "_", name): every run of illegal characters
\* becomes one "_"
RECURSIVE SanitizeName(_)
SanitizeName(name) ==
    IF name = <<>> THEN <<>>
    ELSE IF Head(name) \notin IllegalNameChars
    THEN <<Head(name)>> \o SanitizeName(Tail(name))
    ELSE IF Len(name) > 1 /\ name[2] \in IllegalNameChars
    THEN SanitizeName(Tail(name))
    ELSE <<"_">> \o SanitizeName(Tail(name))

AnswersProject == {<<" ">>, <<"P">>, <<"a", "/", ":", "b">>}

\* ask_project_name
AskProjectName ==
    /\ pc = "ask_project"
    /\ \E answer \in AnswersProject :
          project' = SanitizeName(IF Strip(answer) = <<>>
                                  THEN <<"S", "a", "n", "s", "N", "o", "m">>
                                  ELSE Strip(answer))
    /\ pc' = "ask_dir"
    /\ UNCHANGED <<parseVars, files, call, asked, outDir, dirs, tables, runFile, report>>

\* str.strip('"')
RECURSIVE StripQuotes(_)
StripQuotes(t) ==
    IF t # <<>> /\ Head(t) = "\"" THEN StripQuotes(Tail(t))
    ELSE IF t # <<>> /\ t[Len(t)] = "\"" THEN StripQuotes(SubSeq(t, 1, Len(t) - 1))
    ELSE t

\* the paths of the model: a directory that can be created, a regular file,
\* and a path at which mkdir raises OSError
GoodDir == <<"D">>
RegularFile == <<"F">>
BadPath == <<"X">>
AnswersDirectory == {<<>>, <<" ", "\"", "D", "\"">>, RegularFile, BadPath}

\* ask_output_directory: asked again until a directory is there
AskOutputDirectory ==
    /\ pc = "ask_dir"
    /\ \E answer \in AnswersDirectory :
          LET candidate == StripQuotes(Strip(answer))
          IN  IF candidate = <<>>
              THEN /\ report' = Report("ask_output_directory", "none", "message")
                   /\ UNCHANGED <<pc, outDir, dirs>>
              ELSE IF candidate = RegularFile
              THEN /\ report' = Report("ask_output_directory", "none", "message")
                   /\ UNCHANGED <<pc, outDir, dirs>>
              ELSE IF candidate = BadPath
              THEN /\ report' = Report("ask_output_directory", "OSError", "message")
                   /\ UNCHANGED <<pc, outDir, dirs>>
              ELSE /\ dirs' = dirs \cup {candidate}
                   /\ outDir' = candidate
                   /\ pc' = "export_habitats_znieff"
                   /\ UNCHANGED report
    /\ UNCHANGED <<parseVars, files, call, asked, project, tables, runFile>>

\* an exception that leaves run_single_export and main(): the handler under
\* __main__ prints its kind and message and the process ends
Unexpected(origin, error) ==
    /\ report' = Report(origin, error, "kind and message")
    /\ pc' = "exited"

\* run_single_export, first exporter call: the table is kept, or the
\* exception propagates
RunExportHabitatsZnieff ==
    /\ pc = "export_habitats_znieff"
    /\ LET out == export_habitats_znieff(files, asked.znieff)
       IN  IF out.kind = "ok"
           THEN /\ tables' = [tables EXCEPT !["habitats_znieff"] = out.df]
                /\ pc' = "export_especes_znieff"
                /\ UNCHANGED report
           ELSE /\ Unexpected("export_habitats_znieff", out.kind)
                /\ UNCHANGED tables
    /\ UNCHANGED <<parseVars, files, call, asked, project, outDir, dirs, runFile>>

\* run_single_export, second exporter call
RunExportEspecesZnieff ==
    /\ pc = "export_especes_znieff"
    /\ LET out == export_especes_znieff(files, asked.znieff)
       IN  IF out.kind = "ok"
           THEN /\ tables' = [tables EXCEPT !["especes_znieff"] = out.df]
                /\ pc' = "export_habitats_n2000"
                /\ UNCHANGED report
           ELSE /\ Unexpected("export_especes_znieff", out.kind)
                /\ UNCHANGED tables
    /\ UNCHANGED <<parseVars, files, call, asked, project, outDir, dirs, runFile>>

\* run_single_export, third exporter call
RunExportHabitatsN2000 ==
    /\ pc = "export_habitats_n2000"
    /\ LET out == export_habitats_n2000(files, asked.n2000)
       IN  IF out.kind = "ok"
           THEN /\ tables' = [tables EXCEPT !["habitats_n2000"] = out.df]
                /\ pc' = "export_especes_n2000"
                /\ UNCHANGED report
           ELSE /\ Unexpected("export_habitats_n2000", out.kind)
                /\ UNCHANGED tables
    /\ UNCHANGED <<parseVars, files, call, asked, project, outDir, dirs, runFile>>

\* run_single_export, fourth exporter call; the writer is called next
RunExportEspecesN2000 ==
    /\ pc = "export_especes_n2000"
    /\ LET out == export_especes_n2000(files, asked.n2000)
       IN  IF out.kind = "ok"
           THEN /\ tables' = [tables EXCEPT !["especes_n2000"] = out.df]
                /\ pc' = "write_excel_output"
                /\ UNCHANGED report
           ELSE /\ Unexpected("export_especes_n2000", out.kind)
                /\ UNCHANGED tables
    /\ UNCHANGED <<parseVars, files, call, asked, project, outDir, dirs, runFile>>

\* the environment: the output directory is removed while the datasets are
\* read, which is why the writer creates out_xlsx.parent again
OutputDirectoryRemoved ==
    /\ pc \in {"export_habitats_znieff", "export_especes_znieff",
               "export_habitats_n2000", "export_especes_n2000"}
    /\ outDir \in dirs
    /\ dirs' = dirs \ {outDir}
    /\ UNCHANGED <<parseVars, files, call, pc, asked, project, outDir, tables, runFile, report>>

\* the kinds of exception the handlers of run_single_export tell apart:
\* ValueError, OSError, and an exception that is neither (openpyxl's
\* IllegalCharacterError, zipfile.BadZipFile, ...)
FailureKinds == {"ValueError", "OSError", "Other"}

\* run_single_export's handlers around write_excel_output: ValueError is
\* printed as its message, OSError with its kind and message, and both
\* return to main(); anything else propagates
Raised(origin, error) ==
    CASE error = "ValueError" ->
            /\ report' = Report(origin, error, "message")
            /\ pc' = "ask_continue"
      [] error = "OSError" ->
            /\ report' = Report(origin, error, "kind and message")
            /\ pc' = "ask_continue"
      [] OTHER -> Unexpected(origin, error)

\* mutant: the test for empty results is missing
NeverAllEmpty(t) == FALSE

\* df_habitats_znieff.empty and df_especes_znieff.empty and
\* df_habitats_n2000.empty and df_especes_n2000.empty
AllEmpty(t) == \A k \in DOMAIN t : IsEmpty(t[k])

\* write_excel_output, entry: raises ValueError when there is no data
WriteCheckEmpty ==
    /\ pc = "write_excel_output"
    /\ IF AllEmpty(tables)
       THEN Raised("write_check", "ValueError")
       ELSE pc' = "write_mkdir" /\ UNCHANGED report
    /\ UNCHANGED <<parseVars, files, call, asked, project, outDir, dirs, tables, runFile>>

\* a step of the writer fails
WriteStepFails(here, kinds) ==
    /\ pc = here
    /\ \E error \in kinds \cap FailureKinds : Raised(here, error)

\* out_xlsx.parent.mkdir(parents=True, exist_ok=True)
WriteMkdir ==
    /\ \/ /\ pc = "write_mkdir"
          /\ dirs' = dirs \cup {outDir}
          /\ pc' = "write_open"
          /\ UNCHANGED report
       \/ WriteStepFails("write_mkdir", {"OSError"}) /\ UNCHANGED dirs
    /\ UNCHANGED <<parseVars, files, call, asked, project, outDir, tables, runFile>>

\* pd.ExcelWriter(out_xlsx, engine="openpyxl"): the file is opened for writing
WriteOpen ==
    /\ \/ /\ pc = "write_open"
          /\ runFile' = "partial"
          /\ pc' = "write_sheets"
          /\ UNCHANGED report
       \/ WriteStepFails("write_open", {"OSError"}) /\ UNCHANGED runFile
    /\ UNCHANGED <<parseVars, files, call, asked, project, outDir, dirs, tables>>

\* the four to_excel calls: a sheet too large raises ValueError, a cell
\* with a control character raises openpyxl's IllegalCharacterError; on an
\* exception the with block closes the writer over what was written so far
WriteSheets ==
    /\ \/ /\ pc = "write_sheets"
          /\ pc' = "write_close"
          /\ UNCHANGED report
       \/ WriteStepFails("write_sheets", {"ValueError", "Other"})
    /\ UNCHANGED <<parseVars, files, call, asked, project, outDir, dirs, tables, runFile>>

\* leaving the with block: the workbook is saved
WriteClose ==
    /\ \/ /\ pc = "write_close"
          /\ runFile' = "unsized"
          /\ pc' = "write_load"
          /\ UNCHANGED report
       \/ WriteStepFails("write_close", {"OSError"}) /\ UNCHANGED runFile
    /\ UNCHANGED <<parseVars, files, call, asked, project, outDir, dirs, tables>>

\* wb = load_workbook(out_xlsx): the file may be unreadable (OSError) or no
\* valid workbook (zipfile.BadZipFile)
WriteLoad ==
    /\ \/ /\ pc = "write_load"
          /\ pc' = "write_size"
          /\ UNCHANGED report
       \/ WriteStepFails("write_load", {"OSError", "Other"})
    /\ UNCHANGED <<parseVars, files, call, asked, project, outDir, dirs, tables, runFile>>

\* the column widths are set in the loaded workbook; a cell whose length
\* cannot be taken is skipped
WriteSize ==
    /\ pc = "write_size"
    /\ pc' = "write_save"
    /\ UNCHANGED report
    /\ UNCHANGED <<parseVars, files, call, asked, project, outDir, dirs, tables, runFile>>

\* wb.save(out_xlsx), then run_single_export prints the summary; a failing
\* save leaves the file as it was or truncated
WriteSave ==
    /\ \/ /\ pc = "write_save"
          /\ runFile' = "final"
          /\ report' = Report("run_single_export", "none", "summary")
          /\ pc' = "ask_continue"
       \/ /\ WriteStepFails("write_save", {"OSError"})
          /\ runFile' \in {"unsized", "partial"}
    /\ UNCHANGED <<parseVars, files, call, asked, project, outDir, dirs, tables>>

AnswersContinue == {<<"o">>, <<" ", "N">>, <<"x">>}

\* ask_continue and the loop of main(): another run, the end, or the
\* question again
AskContinue ==
    /\ pc = "ask_continue"
    /\ \E answer \in AnswersContinue :
          LET a == Upper(Strip(answer))
          IN  IF a = <<"O">>
              THEN /\ pc' = "ask_znieff"
                   /\ asked' = [znieff |-> <<>>, n2000 |-> <<>>]
                   /\ project' = <<>>
                   /\ outDir' = <<>>
                   /\ tables' = NoTables
                   /\ runFile' = "none"
                   /\ report' = Report("main", "none", "message")
              ELSE IF a = <<"N">>
              THEN /\ pc' = "end"
                   /\ report' = Report("main", "none", "message")
                   /\ UNCHANGED <<asked, project, outDir, tables, runFile>>
              ELSE /\ report' = Report("ask_continue", "none", "message")
                   /\ UNCHANGED <<pc, asked, project, outDir, tables, runFile>>
    /\ UNCHANGED <<parseVars, files, call, dirs>>

\* the dataset directories of the program: complete, complete with rows of
\* other zones only, without the taxonomic reference, and empty
CompleteDir(zone, site) ==
    [f \in FileNames |->
        CASE f = "znieff_espece" ->
                Present(<<EspeceZnieffRow(zone, <<"1">>, <<"1">>, <<"D">>, <<"b">>)>>)
          [] f = "znieff_habitats" ->
                Present(<<HabitatZnieffRow(zone, <<"0", "7">>, <<"E", "u">>, <<"h", "1">>,
                                           <<"E", "1">>, <<"L", "e">>, <<"1">>)>>)
          [] f = "znieff_habitats_info" -> Present(<<TypoInfoRow(<<"1">>, <<"D">>)>>)
          [] f = "znieff_infos_generales" ->
                Present(<<ZnieffInfoRow(zone, <<"Z", "a">>, <<"1">>)>>)
          [] f = "taxref" -> Present(<<TaxrefRow(<<"1">>, <<"N", "a">>)>>)
          [] f = "n2000_habitats" ->
                Present(<<HabitatN2000Row(site, <<"U", "1">>, <<"1", "0">>,
                                          <<"t", "r", "u", "e">>)>>)
          [] f = "n2000_especes_inscrites" ->
                Present(<<EspeceN2000Row(site, <<"1">>, <<"1">>, <<"B">>)>>)
          [] f = "n2000_especes_autres" -> Present(<<>>)
          [] f = "n2000_infos_generales" ->
                Present(<<N2000InfoRow(site, <<"S", "a">>, <<"A">>)>>)
          [] OTHER -> Present(<<HabrefRow(<<"1", "0">>, <<"L", "a">>)>>)]

ProgramDirs ==
    {CompleteDir(Z1, N1),
     CompleteDir(Z2, N2),
     [CompleteDir(Z1, N1) EXCEPT !["taxref"] = Absent],
     NoFiles}

Init ==
    /\ prompt = "znieff"
    /\ raw = <<>>
    /\ typed = 0
    /\ parseOut = NoCall
    /\ files \in ProgramDirs
    /\ call = NoExport
    /\ MainStart

Next ==
    \/ AskCodesZnieff
    \/ AskCodesN2000
    \/ AskProjectName
    \/ AskOutputDirectory
    \/ RunExportHabitatsZnieff
    \/ RunExportEspecesZnieff
    \/ RunExportHabitatsN2000
    \/ RunExportEspecesN2000
    \/ OutputDirectoryRemoved
    \/ WriteCheckEmpty
    \/ WriteMkdir
    \/ WriteOpen
    \/ WriteSheets
    \/ WriteClose
    \/ WriteLoad
    \/ WriteSize
    \/ WriteSave
    \/ AskContinue

Spec == Init /\ [][Next]_vars

(***************************************************************************)
(* Claims about the parsers.                                               *)
(***************************************************************************)
\* the tokens that survive: trimmed and non-empty, in input order
SurvivingTokens(r) == SelectSeq(StrippedTokens(r), LAMBDA t : t # <<>>)

FirstIndex(s, x) == CHOOSE i \in 1..Len(s) : s[i] = x /\ \A j \in 1..(i - 1) : s[j] # x

ParserCalled == parseOut.fn # "none"
Accepted == ParserCalled /\ parseOut.out.kind = "ok"

\* C1: a list returned by parse_codes_znieff or parse_codes_n2000 holds no
\* code twice, holds exactly the surviving tokens of the input, and lists
\* them in the order of their first occurrence in the input.
C1_UniqueFirstSeenOrder ==
    (Accepted /\ raw # None) =>
        LET out == parseOut.out.codes
            toks == SurvivingTokens(raw)
        IN  /\ \A i, j \in 1..Len(out) : i # j => out[i] # out[j]
            /\ Range(out) = Range(toks)
            /\ \A i, j \in 1..Len(out) :
                   i < j => FirstIndex(toks, out[i]) < FirstIndex(toks, out[j])

\* C1 witness: an accepted input in which a code occurs twice, after another
\* code has occurred in between, and with two different separators.
C1_Witness ==
    /\ Accepted /\ raw # None
    /\ Len(parseOut.out.codes) = 2
    /\ Len(SurvivingTokens(raw)) = 3
    /\ SurvivingTokens(raw)[1] = SurvivingTokens(raw)[3]
    /\ Cardinality(Range(raw) \cap {",", ";", "\n", "\t"}) = 2

\* the shapes the claim names: decimal digits only
AllDecimal(s) == \A i \in 1..Len(s) : s[i] \in DecimalDigits
ShapeZnieff(c) == Len(c) = 9 /\ AllDecimal(c)
ShapeN2000(c) ==
    Len(c) = 9 /\ c[1] = "F" /\ c[2] = "R" /\ AllDecimal(SubSeq(c, 3, 9))
HasShape(c) ==
    IF parseOut.fn = "parse_codes_znieff" THEN ShapeZnieff(c) ELSE ShapeN2000(c)

\* C2: a parser accepts a batch if and only if every surviving token has its
\* domain's shape (9 decimal digits; "FR" and 7 decimal digits); if a token
\* is invalid the call raises the format error naming an offending token and
\* returns no code; an input without token (empty, None, separators only)
\* returns the empty list.
C2_AcceptsIffEveryTokenHasShape ==
    ParserCalled =>
        LET out == parseOut.out
            toks == IF raw = None THEN <<>> ELSE SurvivingTokens(raw)
        IN  /\ out.kind = "ok" <=> \A i \in 1..Len(toks) : HasShape(toks[i])
            /\ out.kind = "ValueError" =>
                   /\ out.token \in Range(toks)
                   /\ ~HasShape(out.token)
                   /\ out.codes = <<>>
            /\ toks = <<>> => out = Ok(<<>>)

\* the parser that produced parseOut
SameParser(r) ==
    IF parseOut.fn = "parse_codes_znieff"
    THEN parse_codes_znieff(r)
    ELSE parse_codes_n2000(r)

\* C3: when a parser accepts an input, parsing the ","-joined list it returned
\* with the same parser is accepted and returns the same list.
C3_ParseIdempotent ==
    Accepted => SameParser(Join(parseOut.out.codes, <<",">>)) = parseOut.out

\* C3 witness: an accepted input, typed with blanks and with other separators
\* than ",", that yields two codes (so that the joined text differs from it).
C3_Witness ==
    /\ Accepted /\ raw # None
    /\ Len(parseOut.out.codes) = 2
    /\ " " \in Range(raw)
    /\ "," \notin Range(raw)
    /\ Join(parseOut.out.codes, <<",">>) # raw

(***************************************************************************)
(* Claims about the exporters (SpecExport).                                *)
(***************************************************************************)
ExporterCalled == call.fn # "none"
ExporterReturned == ExporterCalled /\ call.out.kind = "ok"

\* the fixed output schema of the exporter that was called
SchemaOfCall ==
    CASE call.fn = "export_habitats_znieff" -> HABITATS_ZNIEFF_FINAL_COLS
      [] call.fn = "export_especes_znieff" -> ESPECES_ZNIEFF_FINAL_COLS
      [] call.fn = "export_habitats_n2000" -> HABITATS_N2000_FINAL_COLS
      [] OTHER -> ESPECES_N2000_FINAL_COLS

\* the code set of the call is empty: no entry, or blank entries only
EmptyCodeSet == \A i \in 1..Len(call.codes) : Strip(call.codes[i]) = <<>>

\* C4: whenever one of the four exporters returns, the table it returns has
\* exactly the columns of its fixed output schema, in the schema's order,
\* and every row has a cell for each of them, be the table empty or not.
C4_FixedSchema ==
    ExporterReturned =>
        /\ call.out.df.cols = SchemaOfCall
        /\ \A i \in 1..Len(call.out.df.rows) :
               DOMAIN call.out.df.rows[i] = Range(SchemaOfCall)

\* C4 witness: export_habitats_znieff returned a table with rows, one of which
\* has no EUNIS row in its group and no zone metadata.
C4_Witness ==
    /\ ExporterReturned
    /\ call.fn = "export_habitats_znieff"
    /\ \E i \in 1..Len(call.out.df.rows) :
          /\ call.out.df.rows[i]["Code EUNIS"] = <<>>
          /\ call.out.df.rows[i]["Nom ZNIEFF"] = <<>>

\* C5: an exporter called with an empty code set returns the empty table with
\* its full schema and never raises, whatever the state of the dataset files.
C5_EmptyCodeSetReturnsEmptyTable ==
    (ExporterCalled /\ EmptyCodeSet) => call.out = Returned(EmptyFrame(SchemaOfCall))

\* C5 witness: an exporter was called with blank entries only while its
\* primary dataset is absent.
C5_Witness ==
    /\ ExporterCalled /\ EmptyCodeSet
    /\ call.codes # <<>>
    /\ call.fn = "export_especes_znieff"
    /\ ~files["znieff_espece"].exists
    /\ call.out.kind = "ok"

\* the primary datasets and the reference tables an export reads
PrimaryFilesOfCall ==
    CASE call.fn = "export_habitats_znieff" -> {"znieff_habitats"}
      [] call.fn = "export_especes_znieff" -> {"znieff_espece"}
      [] call.fn = "export_habitats_n2000" -> {"n2000_habitats"}
      [] OTHER -> {"n2000_especes_inscrites", "n2000_especes_autres"}

ReferenceFilesOfCall ==
    CASE call.fn = "export_habitats_znieff" ->
            {"znieff_habitats_info", "znieff_infos_generales"}
      [] call.fn = "export_especes_znieff" -> {"taxref", "znieff_infos_generales"}
      [] call.fn = "export_habitats_n2000" -> {"habref_70", "n2000_infos_generales"}
      [] OTHER -> {"taxref", "n2000_infos_generales"}

MissingOf(fileSet) == {f \in fileSet : ~files[f].exists}

\* the rows of the primary dataset(s) that the filter keeps for the call
FilteredOfCall ==
    CASE call.fn = "export_habitats_znieff" -> FilteredHabitatsZnieff(files, call.codes)
      [] call.fn = "export_especes_znieff" -> FilteredEspecesZnieff(files, call.codes)
      [] call.fn = "export_habitats_n2000" -> FilteredHabitatsN2000(files, call.codes)
      [] OTHER -> FilteredEspecesN2000(files, call.codes)

\* a code is requested and, the primary dataset being there, rows match
RequestedWithMatchingRows ==
    /\ ExporterCalled /\ ~EmptyCodeSet
    /\ MissingOf(PrimaryFilesOfCall) = {} => ~IsEmpty(FilteredOfCall)

\* C6 as stated: with a requested code that has matching rows, the absence of
\* the file of any table the export uses (primary dataset, taxonomic
\* reference, habitat-label reference, zone-info, habitat typology-info)
\* makes the export fail with the file-not-found error.
C6_AnyMissingFileFails ==
    (RequestedWithMatchingRows
        /\ MissingOf(PrimaryFilesOfCall \cup ReferenceFilesOfCall) # {})
    => call.out.kind = "FileNotFoundError"

\* C6 amended: the same for every table but the habitat typology-info, and
\* the error names a missing file; when only the typology-info file of
\* export_habitats_znieff is absent the export returns its rows, each with
\* an empty "Type habitat".
C6_MissingFileFailsButTypologyInfo ==
    LET missing == MissingOf(PrimaryFilesOfCall \cup ReferenceFilesOfCall)
    IN  RequestedWithMatchingRows =>
            /\ missing \ {"znieff_habitats_info"} # {} =>
                  /\ call.out.kind = "FileNotFoundError"
                  /\ call.out.path \in missing \ {"znieff_habitats_info"}
            /\ missing = {"znieff_habitats_info"} =>
                  /\ call.out.kind = "ok"
                  /\ call.out.df.rows # <<>>
                  /\ \A i \in 1..Len(call.out.df.rows) :
                         call.out.df.rows[i]["Type habitat"] = <<>>

\* C6 witness: export_especes_znieff found rows for the requested codes, the
\* taxonomic reference is the one file absent, and the call raised.
C6_Witness ==
    /\ RequestedWithMatchingRows
    /\ call.fn = "export_especes_znieff"
    /\ MissingOf(PrimaryFilesOfCall \cup ReferenceFilesOfCall) = {"taxref"}
    /\ call.out = FileNotFoundError("taxref")

\* the species exports
SpeciesExportReturned ==
    ExporterReturned /\ call.fn \in {"export_especes_znieff", "export_especes_n2000"}

ZoneColOfCall == IF call.fn = "export_especes_znieff" THEN "ID ZNIEFF" ELSE "ID N2000"
KeyColOfCall == IF call.fn = "export_especes_znieff" THEN "nm_sffzn" ELSE "sitecode"

\* the zone identifier as the export normalises it
NormalisedZone(v) ==
    IF call.fn = "export_especes_znieff" THEN Strip(v) ELSE Upper(Strip(v))

\* the CD_NOM values of the taxonomic reference, trimmed
TaxrefKeys == {Strip(files["taxref"].rows[i].CD_NOM) : i \in 1..Len(files["taxref"].rows)}

\* output row o stems from filtered row r
StemsFrom(o, r) ==
    /\ o[ZoneColOfCall] = NormalisedZone(r[KeyColOfCall])
    /\ o["CD_NOM"] = Strip(r["cd_nom"])
    /\ o["CD_REF"] = Strip(r["cd_ref"])

\* C10: in the species exports every filtered species row appears in the
\* output, also when its cd_nom has no match in the taxonomic reference: the
\* output has at least as many rows that stem from a filtered row as there
\* are filtered rows like it, so at least as many rows as the filter kept;
\* and a row whose cd_nom is unmatched has no scientific name: the cell is
\* the missing value, which the writer serialises as the empty text.
C10_LeftJoinKeepsSpeciesRows ==
    SpeciesExportReturned =>
        LET kept == FilteredOfCall.rows
            out == call.out.df.rows
        IN  /\ Len(out) >= Len(kept)
            /\ \A i \in 1..Len(kept) :
                  /\ Cardinality({j \in 1..Len(out) : StemsFrom(out[j], kept[i])})
                        >= Cardinality({k \in 1..Len(kept) :
                               \A c \in {KeyColOfCall, "cd_nom", "cd_ref"} :
                                   (IF c = KeyColOfCall
                                    THEN NormalisedZone(kept[k][c])
                                    ELSE Strip(kept[k][c]))
                                   = (IF c = KeyColOfCall
                                      THEN NormalisedZone(kept[i][c])
                                      ELSE Strip(kept[i][c]))})
                  /\ Strip(kept[i]["cd_nom"]) \notin TaxrefKeys =>
                        \A j \in 1..Len(out) :
                            StemsFrom(out[j], kept[i]) =>
                                ExcelCell(out[j]["Nom scientifique"]) = <<>>

\* C10 witness: a species export returned a row with an unmatched cd_nom next
\* to a row whose cd_nom the taxonomic reference holds.
C10_Witness ==
    /\ SpeciesExportReturned
    /\ \E i, j \in 1..Len(call.out.df.rows) :
          /\ call.out.df.rows[i]["CD_NOM"] \notin TaxrefKeys
          /\ call.out.df.rows[i]["Nom scientifique"] = NaN
          /\ call.out.df.rows[j]["CD_NOM"] \in TaxrefKeys
          /\ call.out.df.rows[j]["Nom scientifique"] # NaN

(***************************************************************************)
(* Claims about the interactive program and the report writer (Spec).      *)
(***************************************************************************)
ExporterSteps == {"export_habitats_znieff", "export_especes_znieff",
                  "export_habitats_n2000", "export_especes_n2000"}

\* the steps of write_excel_output behind the test for empty results
SerializationSteps == {"write_mkdir", "write_open", "write_sheets", "write_close",
                       "write_load", "write_size", "write_save"}

FourTablesEmpty == \A t \in DOMAIN tables : tables[t].rows = <<>>

\* C7: when the four tables handed to write_excel_output are all empty, the
\* call raises the no-data ValueError, creates or changes neither a directory
\* nor the output file, and the run prints the message and returns to the
\* continue prompt with nothing written.
C7_EmptyTablesRaiseAndWriteNothing ==
    [][(pc = "write_excel_output" /\ FourTablesEmpty)
          => /\ pc' = "ask_continue"
             /\ report' = [origin |-> "write_check", error |-> "ValueError",
                           shown |-> "message"]
             /\ dirs' = dirs
             /\ runFile' = "none"]_vars

\* the no-data error was reported, in a run whose output directory had been
\* removed and was not created again
C7_Witness ==
    /\ pc = "ask_continue"
    /\ report.origin = "write_check"
    /\ report.error = "ValueError"
    /\ FourTablesEmpty
    /\ outDir = GoodDir
    /\ GoodDir \notin dirs
    /\ runFile = "none"

\* C8: a failure raised while the spreadsheet is serialized never ends the
\* process; the program is back at the continue prompt.
C8_SerializationFailureNeverEndsProcess ==
    (report.origin \in SerializationSteps /\ report.error # "none")
        => pc # "exited"

\* C9: once a run has ended with a reported data-source or serialization
\* error, no output file of that run is on disk.
C9_NoOutputFileAfterReportedError ==
    (/\ pc \in {"ask_continue", "exited"}
     /\ report.origin \in ExporterSteps \cup SerializationSteps
     /\ report.error # "none")
        => runFile = "none"

(***************************************************************************)
(* Claims about the aggregation of export_habitats_znieff (SpecExport).    *)
(***************************************************************************)
\* export_habitats_znieff returned the aggregate of at least one kept row
HabitatsZnieffAggregated ==
    /\ ExporterReturned
    /\ call.fn = "export_habitats_znieff"
    /\ StrippedCodeSet(call.codes) # {}
    /\ ~IsEmpty(FilteredOfCall)

\* the (zone, typology_info_id) pair of a habitat row, as trimmed text
PairOf(r) == <<Strip(r["NM_SFFZN"]), Strip(r["ID_TYPO_INFO"])>>

\* the pairs of the rows, each once, in order of first appearance
RECURSIVE PairsByFirstAppearance(_)
PairsByFirstAppearance(rows) ==
    IF rows = <<>> THEN <<>>
    ELSE LET before == PairsByFirstAppearance(SubSeq(rows, 1, Len(rows) - 1))
             last == PairOf(rows[Len(rows)])
         IN  IF \E i \in 1..Len(before) : before[i] = last
             THEN before
             ELSE Append(before, last)

\* the indices, ascending, of the kept rows of a pair
RowsOfPair(rows, pair) == {i \in 1..Len(rows) : PairOf(rows[i]) = pair}

\* the tracked families: typology code without leading zeros, code column,
\* label column
TrackedFamilies ==
    {<<<<"7">>, "Code EUNIS", "Libellé EUNIS">>,
     <<<<"2", "2">>, "Code Corine", "Libellé Corine">>,
     <<<<"8">>, "Code HIC", "Libellé HIC">>}

\* a value that is joined: neither empty nor "nan"
Joinable(v) == v # <<>> /\ v # <<"n", "a", "n">>

\* the trimmed values of column col in the rows at the indices idx, in row
\* order, the values that are not joinable left out, with " | " between them
RECURSIVE PipeJoined(_, _, _)
PipeJoined(rows, idx, col) ==
    IF idx = {} THEN <<>>
    ELSE LET first == CHOOSE i \in idx : \A j \in idx : i <= j
             rest == PipeJoined(rows, idx \ {first}, col)
             v == Strip(rows[first][col])
         IN  IF ~Joinable(v) THEN rest
             ELSE IF rest = <<>> THEN v
             ELSE v \o <<" ", "|", " ">> \o rest

\* C11: in the table export_habitats_znieff returns, the row of each (zone,
\* typology_info_id) pair has, for each tracked family (EUNIS "7", Corine
\* "22", HIC "8", leading zeros of the typology code stripped), as code
\* column the entry codes of exactly the pair's rows of that family joined
\* with " | " in source row order, empty and "nan" values skipped and
\* repetitions kept, and as label column the entry labels joined the same
\* way on their own; rows of no tracked family reach no family column and a
\* family without a row in the pair gives two empty texts.
C11_FamilyColumnsJoinInRowOrder ==
    HabitatsZnieffAggregated =>
        LET kept == FilteredOfCall.rows
            pairs == PairsByFirstAppearance(kept)
            out == call.out.df.rows
        IN  \A g \in 1..Len(out) : g <= Len(pairs) =>
                \A fam \in TrackedFamilies :
                    LET idx == {i \in RowsOfPair(kept, pairs[g]) :
                                   LStripZeros(Strip(kept[i]["CD_TYPO"])) = fam[1]}
                    IN  /\ out[g][fam[2]] = PipeJoined(kept, idx, "LB_CODE")
                        /\ out[g][fam[3]] = PipeJoined(kept, idx, "LB_HAB")

\* C11 witness: a pair with two EUNIS rows whose codes are joined in row
\* order, not sorted, whose second label is "nan" and skipped, and which has
\* no Corine row.
C11_Witness ==
    /\ HabitatsZnieffAggregated
    /\ \E g \in 1..Len(call.out.df.rows) :
          /\ call.out.df.rows[g]["Code EUNIS"] = <<"E", "1", " ", "|", " ", "E", "0">>
          /\ call.out.df.rows[g]["Libellé EUNIS"] = <<"L", "e">>
          /\ call.out.df.rows[g]["Code Corine"] = <<>>
          /\ call.out.df.rows[g]["Libellé Corine"] = <<>>

(***************************************************************************)
(* Claims about the row filter and the zone metadata (SpecExport).         *)
(***************************************************************************)
ZnieffCall == call.fn \in {"export_habitats_znieff", "export_especes_znieff"}

\* the key column of the primary dataset of the call
PrimaryKeyOfCall ==
    CASE call.fn = "export_habitats_znieff" -> "NM_SFFZN"
      [] call.fn = "export_especes_znieff" -> "nm_sffzn"
      [] OTHER -> "sitecode"

\* a key or a code as the claim compares it: trimmed, and upper-cased for
\* Natura 2000
Compared(v) == IF ZnieffCall THEN Strip(v) ELSE Upper(Strip(v))

\* the rows of the primary dataset(s) of the call, in source order
PrimaryRowsOfCall ==
    CASE call.fn = "export_habitats_znieff" -> files["znieff_habitats"].rows
      [] call.fn = "export_especes_znieff" -> files["znieff_espece"].rows
      [] call.fn = "export_habitats_n2000" -> files["n2000_habitats"].rows
      [] OTHER -> files["n2000_especes_inscrites"].rows
                    \o files["n2000_especes_autres"].rows

\* the rows whose compared key is a requested code
RowsWithRequestedKey ==
    SelectSeq(PrimaryRowsOfCall,
              LAMBDA r : Compared(r[PrimaryKeyOfCall])
                            \in {Compared(c) : c \in Range(call.codes)} \ {<<>>})

\* C12: the filter of an export keeps exactly the rows of its primary
\* dataset whose key, trimmed (and upper-cased for Natura 2000), is one of
\* the requested codes, trimmed (and upper-cased for Natura 2000): the same
\* rows in the same order, so also a row whose key differs from a requested
\* code by surrounding whitespace only.
C12_FilterComparesTrimmedKeys ==
    (ExporterCalled /\ ~EmptyCodeSet /\ MissingOf(PrimaryFilesOfCall) = {}) =>
        LET kept == FilteredOfCall.rows
            claimed == RowsWithRequestedKey
        IN  /\ Len(kept) = Len(claimed)
            /\ \A i \in 1..Len(kept) : i <= Len(claimed) =>
                  \A c \in DOMAIN claimed[i] :
                      IF c = PrimaryKeyOfCall
                      THEN Compared(kept[i][c]) = Compared(claimed[i][c])
                      ELSE kept[i][c] = claimed[i][c]

\* the first joinable trimmed value of column col in the rows at the indices
\* idx, in row order; the empty text when there is none
FirstJoinable(rows, idx, col) ==
    LET good == {i \in idx : Joinable(Strip(rows[i][col]))}
    IN  IF good = {} THEN <<>>
        ELSE Strip(rows[CHOOSE i \in good : \A j \in good : i <= j][col])

\* C13: in the table export_habitats_znieff returns, the CD_HAB of the row of
\* a (zone, typology_info_id) pair is the first value, in source row order
\* among the pair's rows, that is neither empty nor "nan", and the empty text
\* when the pair has no such value; no sorted order enters into it.
C13_CdHabIsFirstValidInRowOrder ==
    HabitatsZnieffAggregated =>
        LET kept == FilteredOfCall.rows
            pairs == PairsByFirstAppearance(kept)
            out == call.out.df.rows
        IN  \A g \in 1..Len(out) : g <= Len(pairs) =>
                out[g]["CD_HAB"] = FirstJoinable(kept, RowsOfPair(kept, pairs[g]), "CD_HAB")

\* C13 witness: a pair whose first row has CD_HAB "h1" and whose later row
\* has the smaller "h0"; the output keeps "h1".
C13_Witness ==
    /\ HabitatsZnieffAggregated
    /\ LET kept == FilteredOfCall.rows
       IN  /\ Len(kept) = 2
           /\ PairOf(kept[1]) = PairOf(kept[2])
           /\ kept[1]["CD_HAB"] = <<"h", "1">>
           /\ kept[2]["CD_HAB"] = <<"h", "0">>
           /\ Len(call.out.df.rows) = 1
           /\ call.out.df.rows[1]["CD_HAB"] = <<"h", "1">>

\* C14: export_habitats_znieff returns exactly one row for each distinct
\* (zone, typology_info_id) pair among the kept habitat rows, the pairs with
\* an empty typology_info_id and those without a row of a tracked family
\* included, in order of first appearance; the family merges and the join
\* with the zone metadata neither drop nor repeat a row.
C14_OneRowPerPairInFirstAppearanceOrder ==
    HabitatsZnieffAggregated =>
        LET pairs == PairsByFirstAppearance(FilteredOfCall.rows)
            out == call.out.df.rows
        IN  /\ Len(out) = Len(pairs)
            /\ \A g \in 1..Len(out) : g <= Len(pairs) =>
                  out[g]["ID ZNIEFF"] = pairs[g][1]

\* C14 witness: two kept rows of two pairs, the first with an empty
\* typology_info_id and of no tracked family, the second of a zone that the
\* zone file lists under two spellings; the output has the two rows in that
\* order.
C14_Witness ==
    /\ HabitatsZnieffAggregated
    /\ LET kept == FilteredOfCall.rows
           out == call.out.df.rows
       IN  /\ Len(kept) = 2
           /\ PairOf(kept[1]) = <<KB, <<>>>>
           /\ kept[1]["CD_TYPO"] = <<"5">>
           /\ PairOf(kept[2]) = <<KA, <<"1">>>>
           /\ Len(files["znieff_infos_generales"].rows) = 3
           /\ Len(out) = 2
           /\ out[1]["ID ZNIEFF"] = KB /\ out[1]["Code EUNIS"] = <<>>
           /\ out[2]["ID ZNIEFF"] = KA

\* the zone metadata table the export of the call joins with, and the names
\* of its key, of the zone column and of the name and type columns of the
\* output
ZoneTableOfCall ==
    IF ZnieffCall THEN LoadZnieffInfoFrame(files) ELSE LoadN2000InfoFrame(files)

ZoneFileOfCall ==
    IF ZnieffCall THEN "znieff_infos_generales" ELSE "n2000_infos_generales"

ZoneTableKeyOfCall == IF ZnieffCall THEN "ID ZNIEFF" ELSE "sitecode"

OutZoneColOfCall == IF ZnieffCall THEN "ID ZNIEFF" ELSE "ID N2000"

OutNameColOfCall == IF ZnieffCall THEN "Nom ZNIEFF" ELSE "Nom site"

OutTypeColOfCall == IF ZnieffCall THEN "Type ZNIEFF" ELSE "Type de zone"

\* C15: in every export, ZNIEFF and Natura 2000, the zone metadata table has
\* at most one row for a zone identifier, so the left join attaches one
\* name and one type at most to the rows of a zone: when the export returns
\* rows, no two of them have the same zone and different names or types.
C15_ZoneTableHasOneRowPerZone ==
    (ExporterReturned /\ call.out.df.rows # <<>>) =>
        LET zones == ZoneTableOfCall.rows
            out == call.out.df.rows
        IN  /\ \A i, j \in 1..Len(zones) :
                  zones[i][ZoneTableKeyOfCall] = zones[j][ZoneTableKeyOfCall] => i = j
            /\ \A i, j \in 1..Len(out) :
                  out[i][OutZoneColOfCall] = out[j][OutZoneColOfCall] =>
                      /\ out[i][OutNameColOfCall] = out[j][OutNameColOfCall]
                      /\ out[i][OutTypeColOfCall] = out[j][OutTypeColOfCall]

====
